---------------------------- MODULE Spec2Model ----------------------------
(***************************************************************************)
(* Model of src/src/merkle.rs: a fixed-height, content-addressed binary    *)
(* hash tree (BinaryTree), its leaf values (Element) and its membership    *)
(* proofs (Proof).                                                         *)
(*                                                                         *)
(* SHA-256 is modelled as a collision-free function of the byte string it  *)
(* is fed: a digest is the term <<"sha256", blocks>>, where blocks is the  *)
(* sequence of 32-byte blocks written into the hasher.  A block is a       *)
(* digest or the canonical encoding of a field scalar.  The scalar of      *)
(* small integer value n is <<"fp", n>> and its encoding <<"repr", n>>.    *)
(* A digest is the encoding of a scalar only when, read as an integer, it *)
(* is below the field modulus; this holds for the digest of the default   *)
(* Element in the field of the tests (pasta Fp), and DigestScalar is that  *)
(* scalar: a leaf value can hash to the digest of an inner node.           *)
(***************************************************************************)
EXTENDS Integers, Sequences, FiniteSets, TLC

\* Bounds of the model.
MaxHeight == 2
MaxAdds == 2
MaxScalar == 1

\* F::ZERO of the field.
ZERO == <<"fp", 0>>

\* The scalars of small integer value.
Scalars == {<<"fp", n>> : n \in 0..MaxScalar}

\* Element::default(): vec![F::ZERO].
DefaultElement == <<ZERO>>

Reverse(s) == [i \in 1..Len(s) |-> s[Len(s) + 1 - i]]

\* Bit paths of length n, root-to-leaf.
BitSeqs(n) == [1..n -> BOOLEAN]

-----------------------------------------------------------------------------
(* Hashing *)

\* Sha256::new(); update(block)...; finalize().to_vec()
Sha256(blocks) == <<"sha256", blocks>>

\* The scalar of Fp whose canonical encoding is sha256(ZERO.to_repr()) =
\* 66687aad..2925, the digest of the default Element; its last (most
\* significant) byte 0x25 puts it below the modulus 0x4000..0001 of Fp.
DigestScalar == <<"fp_of", Sha256(<<<<"repr", 0>>>>)>>

\* v.to_repr(): the canonical fixed-width encoding of a scalar.
to_repr(v) == IF v = DigestScalar THEN v[2] ELSE <<"repr", v[2]>>

\* Mutant of compute_hash: only the first scalar of the value is hashed.
compute_hash_first_scalar(element) == Sha256(<<to_repr(element[1])>>)

\* Element::compute_hash: every scalar of the value, in order, is hashed.
compute_hash(element) ==
    Sha256([i \in 1..Len(element) |-> to_repr(element[i])])

\* BinaryTree::combine_hashes: hash(left || right).
combine_hashes(left, right) == Sha256(<<left, right>>)

\* Element values (Vec<F>) the model inserts: every single-scalar value of
\* small integer value and two two-scalar values; the second one hashes to
\* combine_hashes(d, d), d the digest of the default Element.
Elems ==
    {<<v>> : v \in Scalars}
        \cup {<<ZERO, ZERO>>, <<DigestScalar, DigestScalar>>}

\* The empty values the model initializes a tree with: the default Element,
\* as the tests do, and one other Element.
EmptyValues == {DefaultElement, <<ZERO, ZERO>>}

-----------------------------------------------------------------------------
(* HashMap<Vec<u8>, (Vec<u8>, Vec<u8>)> *)

EmptyMap == [k \in {} |-> <<>>]

\* HashMap::insert: adds the entry, replacing the value under an existing key.
Insert(m, k, v) == [x \in (DOMAIN m) \cup {k} |-> IF x = k THEN v ELSE m[x]]

-----------------------------------------------------------------------------
(* BinaryTree *)

\* Mutant of InitStep: the pair is inserted under the hash of the level below.
InitStep_stale_key(current_hash, store) ==
    LET pair == <<current_hash, current_hash>>
        next == combine_hashes(current_hash, current_hash)
    IN  [current_hash |-> next,
         data_store |-> Insert(store, current_hash, pair)]

\* One iteration of the loop of initialize (lines 42-44).
InitStep(current_hash, store) ==
    LET pair == <<current_hash, current_hash>>
        next == combine_hashes(current_hash, current_hash)
    IN  [current_hash |-> next, data_store |-> Insert(store, next, pair)]

RECURSIVE InitLoop(_, _, _)
InitLoop(n, current_hash, store) ==
    IF n = 0
    THEN [top |-> current_hash, data_store |-> store]
    ELSE LET s == InitStep(current_hash, store)
         IN  InitLoop(n - 1, s.current_hash, s.data_store)

\* BinaryTree::initialize(empty_value, height)
initialize(empty_value, h) == InitLoop(h, compute_hash(empty_value), EmptyMap)

\* Mutant of SiblingStep: the child the walk continues with is pushed.
SiblingStep_same_side(pair, direction) ==
    IF direction
    THEN [node_hash |-> pair[2], sibling |-> pair[2]]
    ELSE [node_hash |-> pair[1], sibling |-> pair[1]]

\* One iteration of the loop of get_sibling_hashes, on a node present in the
\* store: the child the walk continues with, and the sibling pushed.
SiblingStep(pair, direction) ==
    IF direction
    THEN [node_hash |-> pair[2], sibling |-> pair[1]]
    ELSE [node_hash |-> pair[1], sibling |-> pair[2]]

RECURSIVE SiblingLoop(_, _, _, _, _)
SiblingLoop(store, bits_index, i, node_hash, siblings) ==
    IF i > Len(bits_index)
    THEN [panicked |-> FALSE, siblings |-> siblings]
    ELSE IF node_hash \notin DOMAIN store
         THEN [panicked |-> TRUE, siblings |-> <<>>]      \* .get(..).unwrap()
         ELSE LET s == SiblingStep(store[node_hash], bits_index[i])
              IN  SiblingLoop(store, bits_index, i + 1, s.node_hash,
                              Append(siblings, s.sibling))

\* BinaryTree::get_sibling_hashes(&self, bits_index)
get_sibling_hashes(tree, bits_index) ==
    SiblingLoop(tree.data_store, bits_index, 1, tree.top, <<>>)

\* Mutant of AddPair: left and right are exchanged.
AddPair_swapped(direction, sibling, current_hash) ==
    IF direction THEN <<current_hash, sibling>> ELSE <<sibling, current_hash>>

\* The (left, right) placement of add_element (lines 59-63).
AddPair(direction, sibling, current_hash) ==
    IF direction THEN <<sibling, current_hash>> ELSE <<current_hash, sibling>>

\* Mutant of AddStep: the pair is stored as (right, left).
AddStep_stores_swapped(direction, sibling, current_hash, store) ==
    LET pair == AddPair(direction, sibling, current_hash)
        next == combine_hashes(pair[1], pair[2])
    IN  [current_hash |-> next,
         data_store |-> Insert(store, next, <<pair[2], pair[1]>>)]

\* One iteration of the loop of add_element after the pop (lines 59-65).
AddStep(direction, sibling, current_hash, store) ==
    LET pair == AddPair(direction, sibling, current_hash)
        next == combine_hashes(pair[1], pair[2])
    IN  [current_hash |-> next, data_store |-> Insert(store, next, pair)]

RECURSIVE AddLoop(_, _, _, _, _, _)
AddLoop(tree, rbits, i, path, current_hash, store) ==
    IF i > Len(rbits)
    THEN [panicked |-> FALSE, top |-> current_hash, data_store |-> store]
    ELSE IF path = <<>>
         THEN \* path.pop().unwrap() on an empty vector: the entries inserted
              \* so far stay, top is not assigned.
              [panicked |-> TRUE, top |-> tree.top, data_store |-> store]
         ELSE LET s == AddStep(rbits[i], path[Len(path)], current_hash, store)
              IN  AddLoop(tree, rbits, i + 1, SubSeq(path, 1, Len(path) - 1),
                          s.current_hash, s.data_store)

\* Mutant of add_element: top is not assigned after the loop.
add_element_stale_top(tree, bits_index, element) ==
    LET r == get_sibling_hashes(tree, bits_index)
    IN  IF r.panicked
        THEN [panicked |-> TRUE, top |-> tree.top, data_store |-> tree.data_store]
        ELSE [AddLoop(tree, Reverse(bits_index), 1, r.siblings,
                      compute_hash(element), tree.data_store)
                 EXCEPT !.top = tree.top]

\* Mutant of add_element: bits_index is not reversed before the loop.
add_element_no_reverse(tree, bits_index, element) ==
    LET r == get_sibling_hashes(tree, bits_index)
    IN  IF r.panicked
        THEN [panicked |-> TRUE, top |-> tree.top, data_store |-> tree.data_store]
        ELSE AddLoop(tree, bits_index, 1, r.siblings,
                     compute_hash(element), tree.data_store)

\* BinaryTree::add_element(&mut self, bits_index, element)
add_element(tree, bits_index, element) ==
    LET r == get_sibling_hashes(tree, bits_index)
    IN  IF r.panicked
        THEN [panicked |-> TRUE, top |-> tree.top, data_store |-> tree.data_store]
        ELSE AddLoop(tree, Reverse(bits_index), 1, r.siblings,
                     compute_hash(element), tree.data_store)

-----------------------------------------------------------------------------
(* convert_to_bits *)

RECURSIVE Pow2(_)
Pow2(n) == IF n = 0 THEN 1 ELSE 2 * Pow2(n - 1)

\* convert_to_bits(depth, index): bit i of index for i in 0..depth, reversed.
convert_to_bits(depth, index) ==
    Reverse([j \in 1..depth |-> ((index \div Pow2(j - 1)) % 2) = 1])

-----------------------------------------------------------------------------
(* Proof *)

\* Mutant of ProofPair: left and right are exchanged.
ProofPair_swapped(direction, sibling, current_hash) ==
    IF direction THEN <<current_hash, sibling>> ELSE <<sibling, current_hash>>

\* The (left, right) placement of calculate_root (lines 113-117).
ProofPair(direction, sibling, current_hash) ==
    IF direction THEN <<sibling, current_hash>> ELSE <<current_hash, sibling>>

RECURSIVE RootLoop(_, _, _, _)
RootLoop(rbits, rsiblings, i, current_hash) ==
    IF i > Len(rsiblings)
    THEN [panicked |-> FALSE, root |-> current_hash]
    ELSE IF i > Len(rbits)
         THEN \* bits_index[i] out of bounds: nothing is returned.
              [panicked |-> TRUE, root |-> <<>>]
         ELSE LET pair == ProofPair(rbits[i], rsiblings[i], current_hash)
              IN  RootLoop(rbits, rsiblings, i + 1,
                           combine_hashes(pair[1], pair[2]))

\* Mutant of calculate_root: bits_index is not reversed.
calculate_root_no_reverse(sibling_hashes, bits_index, element) ==
    RootLoop(bits_index, Reverse(sibling_hashes), 1, compute_hash(element))

\* Proof::calculate_root(&self, bits_index, element)
calculate_root(sibling_hashes, bits_index, element) ==
    RootLoop(Reverse(bits_index), Reverse(sibling_hashes), 1,
             compute_hash(element))

\* Proof::validate(&self, bits_index, element, root_hash): the panic of
\* calculate_root propagates, otherwise the comparison is returned.
validate(sibling_hashes, bits_index, element, root_hash) ==
    LET c == calculate_root(sibling_hashes, bits_index, element)
    IN  IF c.panicked
        THEN [panicked |-> TRUE, valid |-> FALSE]
        ELSE [panicked |-> FALSE, valid |-> (c.root = root_hash)]

-----------------------------------------------------------------------------
(* State *)

VARIABLES top,          \* BinaryTree.top (line 32)
          data_store,   \* BinaryTree.data_store (line 33)
          height,       \* the height passed to initialize (line 38)
          empty_value,  \* the empty_value passed to initialize (line 38)
          leaves,       \* bit path |-> the Element last passed to add_element
                        \* for it (line 53), empty_value if none
          call,         \* the last call made on the tree and its outcome
          nAdds         \* number of add_element calls made

vars == <<top, data_store, height, empty_value, leaves, call, nAdds>>

tree == [top |-> top, data_store |-> data_store]

Paths == BitSeqs(height)

Init ==
    \E h \in 0..MaxHeight, ev \in EmptyValues :
        LET t == initialize(ev, h)
        IN  /\ top = t.top
            /\ data_store = t.data_store
            /\ height = h
            /\ empty_value = ev
            /\ leaves = [p \in BitSeqs(h) |-> ev]
            /\ call = [op |-> "initialize", bits_index |-> <<>>,
                       element |-> ev, panicked |-> FALSE]
            /\ nAdds = 0

\* tree.add_element(bits_index, &element); a panic ends the program.
AddElement(bits_index, element) ==
    /\ nAdds < MaxAdds
    /\ ~call.panicked
    /\ LET t == add_element(tree, bits_index, element)
       IN  /\ top' = t.top
           /\ data_store' = t.data_store
           /\ call' = [op |-> "add_element", bits_index |-> bits_index,
                       element |-> element, panicked |-> t.panicked]
           /\ leaves' = IF bits_index \in DOMAIN leaves /\ ~t.panicked
                        THEN [leaves EXCEPT ![bits_index] = element]
                        ELSE leaves
    /\ nAdds' = nAdds + 1
    /\ UNCHANGED <<height, empty_value>>

\* Well-formed use: the path is convert_to_bits(height, index), index < 2^height.
Next ==
    \E index \in 0..(Pow2(height) - 1), element \in Elems :
        AddElement(convert_to_bits(height, index), element)

Spec == Init /\ [][Next]_vars

\* Any use: the path has any length up to height + 1.
NextAny ==
    \E n \in 0..(height + 1) :
        \E bits_index \in BitSeqs(n), element \in Elems :
            AddElement(bits_index, element)

SpecAny == Init /\ [][NextAny]_vars

TypeOK ==
    /\ height \in 0..MaxHeight
    /\ empty_value \in EmptyValues
    /\ nAdds \in 0..MaxAdds
    /\ leaves \in [Paths -> Elems]

-----------------------------------------------------------------------------
(* Properties *)

\* The fresh sibling path of p in the current tree.
Siblings(p) == get_sibling_hashes(tree, p)

\* A call of validate returned true / returned false (it did not panic).
ReturnsTrue(r) == ~r.panicked /\ r.valid
ReturnsFalse(r) == ~r.panicked /\ ~r.valid

\* A call of calculate_root returned the digest d.
Returns(c, d) == ~c.panicked /\ c.root = d

\* The digest of the subtree below the node reached by prefix, computed from
\* the leaf values alone: a leaf is the hash of its Element, an inner node
\* the hash of its two children.
RECURSIVE SubtreeDigest(_)
SubtreeDigest(prefix) ==
    IF Len(prefix) >= height
    THEN compute_hash(leaves[prefix])
    ELSE combine_hashes(SubtreeDigest(Append(prefix, FALSE)),
                        SubtreeDigest(Append(prefix, TRUE)))

\* The sibling of the node at depth i on path p.
SiblingPrefix(p, i) == [j \in 1..i |-> IF j = i THEN ~p[j] ELSE p[j]]

\* C1 (update correctness): after add_element(p, e), the sibling path freshly
\* extracted for p validates e against the new root.
C1_UpdateCorrectness ==
    (call.op = "add_element") =>
        LET r == Siblings(call.bits_index)
        IN  /\ ~call.panicked
            /\ ~r.panicked
            /\ ReturnsTrue(validate(r.siblings, call.bits_index, call.element,
                                    top))

C1_Witness ==
    /\ call.op = "add_element"
    /\ height = 2
    /\ nAdds = 2
    /\ call.element # empty_value
    /\ call.bits_index = <<FALSE, TRUE>>
    /\ ReturnsTrue(validate(Siblings(call.bits_index).siblings,
                            call.bits_index, call.element, top))

\* C2 as claimed (negative proof): before add_element(p, e), the pre-insertion
\* sibling path of p does not validate e against the pre-insertion root,
\* unless e is the empty leaf value.
C2_NegativeProofUnlessEmpty ==
    \A p \in Paths :
        LET proof == Siblings(p).siblings
        IN  \A e \in Elems :
                (e # empty_value) => ReturnsFalse(validate(proof, p, e, top))

\* C2 as amended (negative proof): before add_element(p, e), the pre-insertion
\* sibling path of p does not validate e against the pre-insertion root,
\* unless e is the value the leaf at p currently holds.
C2_NegativeProofUnlessCurrent ==
    \A p \in Paths :
        LET proof == Siblings(p).siblings
        IN  \A e \in Elems :
                (e # leaves[p]) => ReturnsFalse(validate(proof, p, e, top))

C2_Witness ==
    /\ nAdds >= 1
    /\ height = 2
    /\ \E p \in Paths, e \in Elems :
        /\ leaves[p] # empty_value
        /\ e # leaves[p]
        /\ e # empty_value
        /\ ReturnsFalse(validate(Siblings(p).siblings, p, e, top))
        /\ ReturnsFalse(validate(Siblings(p).siblings, p, empty_value, top))
        /\ ReturnsTrue(validate(Siblings(p).siblings, p, leaves[p], top))

\* C3 (proof soundness): a fresh proof for p validates an Element against the
\* root only if it is the value the leaf at p holds.
C3_ProofSoundness ==
    \A p \in Paths :
        LET proof == Siblings(p).siblings
        IN  \A x \in Elems :
                LET v == validate(proof, p, x, top)
                IN  /\ ~v.panicked
                    /\ v.valid => (x = leaves[p])

C3_Witness ==
    /\ nAdds = 2
    /\ height = 2
    /\ \E p \in Paths :
        /\ leaves[p] = <<ZERO, ZERO>>
        /\ empty_value = DefaultElement
        /\ ReturnsTrue(validate(Siblings(p).siblings, p, leaves[p], top))
        /\ ReturnsFalse(validate(Siblings(p).siblings, p, DefaultElement, top))

\* C4 (every leaf stays provable): for every path, the fresh sibling path
\* combined with the leaf's current value gives the current root.
C4_EveryLeafProvable ==
    \A p \in Paths :
        LET r == Siblings(p)
        IN  /\ ~r.panicked
            /\ Returns(calculate_root(r.siblings, p, leaves[p]), top)

C4_Witness ==
    /\ call.op = "add_element"
    /\ height = 2
    /\ \E p2 \in Paths :
        /\ p2 # call.bits_index
        /\ p2[1] = call.bits_index[1]
        /\ leaves[p2] # empty_value
        /\ leaves[call.bits_index] # empty_value
        /\ Returns(calculate_root(Siblings(p2).siblings, p2, leaves[p2]), top)

\* C5 (calculate_root mirrors add_element): the root calculate_root gives for
\* (p, e) on the sibling path taken before the update is the root the tree
\* holds after add_element(p, e).
C5_CalculateRootMirrorsAdd ==
    [][(call'.op = "add_element" /\ ~call'.panicked) =>
          /\ ~Siblings(call'.bits_index).panicked
          /\ Returns(calculate_root(Siblings(call'.bits_index).siblings,
                                    call'.bits_index, call'.element),
                     top')]_vars

C5_Witness ==
    /\ call.op = "add_element"
    /\ height = 2
    /\ nAdds = 2
    /\ call.bits_index = <<TRUE, FALSE>>
    /\ top # initialize(empty_value, height).top
    /\ leaves[<<FALSE, TRUE>>] # empty_value

\* C6 (malformed paths are rejected without effect): add_element with a path
\* whose length is not the height is rejected and changes neither the root
\* nor the store.
C6_MalformedRejected ==
    [][(call'.op = "add_element" /\ Len(call'.bits_index) # height) =>
          /\ call'.panicked
          /\ top' = top
          /\ data_store' = data_store]_vars

\* C7 (no missing node under well-formed use): get_sibling_hashes finds every
\* node it visits and returns height siblings, root to leaf: the i-th is the
\* digest of the sibling subtree at depth i.
C7_NoMissingNode ==
    \A p \in Paths :
        LET r == Siblings(p)
        IN  /\ ~r.panicked
            /\ Len(r.siblings) = height
            /\ \A i \in 1..height :
                  r.siblings[i] = SubtreeDigest(SiblingPrefix(p, i))

C7_Witness ==
    /\ height = 2
    /\ nAdds = 2
    /\ Cardinality({p \in Paths : leaves[p] # empty_value}) = 2
    /\ \E p \in Paths : compute_hash(leaves[p]) \in DOMAIN data_store
    /\ Len(Siblings(<<TRUE, FALSE>>).siblings) = 2

\* C8 as claimed (root invariant): the root is a key of the store when
\* height > 0 and the hash of the empty leaf Element when height = 0.
C8_RootInvariantEmptyLeaf ==
    /\ (height > 0) => (top \in DOMAIN data_store)
    /\ (height = 0) => (top = compute_hash(empty_value))

\* C8 as amended (root invariant): the root is a key of the store when
\* height > 0 and the hash of the single leaf's current Element when
\* height = 0.
C8_RootInvariant ==
    /\ (height > 0) => (top \in DOMAIN data_store)
    /\ (height = 0) => (top = compute_hash(leaves[<<>>]))

C8_Witness ==
    \/ /\ height = 0
       /\ nAdds >= 1
       /\ leaves[<<>>] # empty_value
       /\ top = compute_hash(leaves[<<>>])
    \/ /\ height = 2
       /\ nAdds = 2
       /\ top \in DOMAIN data_store
       /\ top # initialize(empty_value, height).top

KeysSelfVerify ==
    \A h \in DOMAIN data_store :
        h = combine_hashes(data_store[h][1], data_store[h][2])

\* C9 (self-verifying store): every key of the store is the hash of the pair
\* stored under it, and a step never removes a key or changes its pair.
C9_SelfVerifyingStore ==
    /\ []KeysSelfVerify
    /\ [][\A h \in DOMAIN data_store :
             /\ h \in DOMAIN data_store'
             /\ data_store'[h] = data_store[h]]_vars

C9_Witness ==
    /\ height = 2
    /\ nAdds = 2
    /\ Cardinality(DOMAIN data_store) = 6
    /\ KeysSelfVerify

\* C10 (history independence): the root is determined by the height and the
\* last-written Element of every leaf: it is the digest of the tree over the
\* current leaf values, whatever the order and repetition of the calls.
C10_HistoryIndependence ==
    top = SubtreeDigest(<<>>)

C10_Witness ==
    /\ height = 2
    /\ nAdds = 2
    /\ call.bits_index = <<FALSE, FALSE>>
    /\ leaves[<<TRUE, TRUE>>] # empty_value
    /\ leaves[<<FALSE, FALSE>>] # empty_value
    /\ top = SubtreeDigest(<<>>)
=============================================================================
